---------------------------- MODULE Spec2Model ----------------------------
(***************************************************************************)
(* Tanh-sinh quadrature (scipy/integrate/_tanhsinh.py) as a state machine. *)
(*                                                                         *)
(* Floating point is modelled by a binary format of the IEEE-754 kind with *)
(* a short mantissa: MantBits significant bits, round-to-nearest-even      *)
(* after every operation, gradual underflow to a smallest step of          *)
(* 2^-FracBits, overflow to +/-infinity above 2^(ExpMax+1), and a NaN. A   *)
(* finite value is held as the integer number of 2^-FracBits steps. Signed *)
(* zeros are not distinguished.                                            *)
(***************************************************************************)
EXTENDS Integers, Sequences, FiniteSets, TLC

(***************************************************************************)
(* The floating-point format.                                              *)
(***************************************************************************)
MantBits == 5

FracBits == 14

ExpMax == 12

One == 2^FracBits

MaxFinite == (2^MantBits - 1) * 2^(ExpMax - MantBits + 1) * One

PInf == MaxFinite + 1

NInf == 0 - PInf

NaN == PInf + 1

IsNaN(x) == x = NaN

IsInf(x) == x = PInf \/ x = NInf

IsFinite(x) == ~IsNaN(x) /\ ~IsInf(x)

Sign(x) == IF x < 0 THEN 0 - 1 ELSE 1

Mag(x) == IF x < 0 THEN 0 - x ELSE x

MaxOf(i, j) == IF i >= j THEN i ELSE j

\* the number of binary digits of n, 0 <= n < 2^31
BitLen2(n) == IF n = 0 THEN 0 ELSE IF n = 1 THEN 1 ELSE 2

BitLen4(n) == IF n < 4 THEN BitLen2(n) ELSE 2 + BitLen2(n \div 4)

BitLen8(n) == IF n < 16 THEN BitLen4(n) ELSE 4 + BitLen4(n \div 16)

BitLen16(n) == IF n < 256 THEN BitLen8(n) ELSE 8 + BitLen8(n \div 256)

BitLen(n) == IF n < 65536 THEN BitLen16(n) ELSE 16 + BitLen16(n \div 65536)

\* the number of zero binary digits at the end of n, 0 < n < 2^31
TrailingZeros1(n) == IF n % 2 = 0 THEN 1 ELSE 0

TrailingZeros2(n) ==
    IF n % 4 = 0 THEN 2 + TrailingZeros1(n \div 4) ELSE TrailingZeros1(n)

TrailingZeros4(n) ==
    IF n % 16 = 0 THEN 4 + TrailingZeros2(n \div 16) ELSE TrailingZeros2(n)

TrailingZeros8(n) ==
    IF n % 256 = 0 THEN 8 + TrailingZeros4(n \div 256) ELSE TrailingZeros4(n)

TrailingZeros(n) ==
    IF n % 65536 = 0 THEN 16 + TrailingZeros8(n \div 65536)
    ELSE TrailingZeros8(n)

\* A positive finite value n = Mant(n) * 2^Expo(n) steps, Mant(n) odd.
Expo(n) == TrailingZeros(n)

Mant(n) == n \div 2^Expo(n)

\* q1 * 2^e steps, PInf on overflow
Packed(q1, e) ==
    IF q1 = 0 THEN 0
    ELSE IF BitLen(q1) + e > FracBits + ExpMax + 1 THEN PInf
    ELSE q1 * 2^e

\* the quotient q rounded by its remainder r, half being half a unit of q
RoundUp(q, r, half, st) ==
    IF r > half \/ (r = half /\ (st = 1 \/ q % 2 = 1)) THEN q + 1 ELSE q

\* s is the number of low bits of M that do not fit
RoundAt(M, k, st, bits, s) ==
    IF M = 0 THEN 0
    ELSE IF s <= 0
         THEN IF bits + k > FracBits + ExpMax + 1 THEN PInf ELSE M * 2^k
    ELSE IF s > bits + 1 THEN 0
    ELSE Packed(RoundUp(M \div 2^s, M % 2^s, 2^(s - 1), st), s + k)

\* bits is the number of binary digits of M
RoundWidth(M, k, st, bits) ==
    RoundAt(M, k, st, bits, MaxOf(bits - MantBits, 0 - k))

\* The format's value nearest to (M + st*epsilon) * 2^k steps, for M >= 0:
\* at most MantBits significant bits, no bit below one step, ties to even,
\* PInf on overflow.  st = 1 says that the exact value lies strictly above
\* M * 2^k (a remainder was cut off before).
RoundMK(M, k, st) == RoundWidth(M, k, st, BitLen(M))

Signed(sg, m) == IF sg < 0 THEN 0 - m ELSE m

FromInt(i) == Signed(Sign(i), RoundMK(Mag(i), FracBits, 0))

FNeg(x) == IF IsNaN(x) THEN NaN ELSE 0 - x

FAbs(x) == IF IsNaN(x) THEN NaN ELSE Mag(x)

FAdd(x, y) ==
    IF IsNaN(x) \/ IsNaN(y) THEN NaN
    ELSE IF IsInf(x) /\ IsInf(y) THEN (IF x = y THEN x ELSE NaN)
    ELSE IF IsInf(x) THEN x
    ELSE IF IsInf(y) THEN y
    ELSE Signed(Sign(x + y), RoundMK(Mag(x + y), 0, 0))

FSub(x, y) == FAdd(x, FNeg(y))

FMul(x, y) ==
    IF IsNaN(x) \/ IsNaN(y) THEN NaN
    ELSE IF (IsInf(x) /\ y = 0) \/ (x = 0 /\ IsInf(y)) THEN NaN
    ELSE IF IsInf(x) \/ IsInf(y) THEN Signed(Sign(x) * Sign(y), PInf)
    ELSE IF x = 0 \/ y = 0 THEN 0
    ELSE Signed(Sign(x) * Sign(y),
                RoundMK(Mant(Mag(x)) * Mant(Mag(y)),
                        Expo(Mag(x)) + Expo(Mag(y)) - FracBits, 0))

FDiv(x, y) ==
    IF IsNaN(x) \/ IsNaN(y) THEN NaN
    ELSE IF (IsInf(x) /\ IsInf(y)) \/ (x = 0 /\ y = 0) THEN NaN
    ELSE IF IsInf(x) THEN Signed(Sign(x) * Sign(y), PInf)
    ELSE IF IsInf(y) THEN 0
    ELSE IF y = 0 THEN Signed(Sign(x), PInf)
    ELSE IF x = 0 THEN 0
    ELSE LET guard == 2 * MantBits + 2
             num   == Mant(Mag(x)) * 2^guard
             den   == Mant(Mag(y))
         IN  Signed(Sign(x) * Sign(y),
                    RoundMK(num \div den,
                            Expo(Mag(x)) - Expo(Mag(y)) + FracBits - guard,
                            IF num % den = 0 THEN 0 ELSE 1))

\* Comparisons: every comparison with NaN is false.
FLt(x, y) == ~IsNaN(x) /\ ~IsNaN(y) /\ x < y

FLe(x, y) == ~IsNaN(x) /\ ~IsNaN(y) /\ x <= y

FGt(x, y) == FLt(y, x)

FGe(x, y) == FLe(y, x)

\* The floating-point exceptions numpy warns about by default (invalid
\* operation, division by zero, overflow; underflow is ignored) when an
\* operation is not inside a np.errstate block that ignores them.
AddFlag(x, y) ==
    \/ IsInf(x) /\ IsInf(y) /\ x # y
    \/ IsFinite(x) /\ IsFinite(y) /\ ~IsFinite(FAdd(x, y))

SubFlag(x, y) == AddFlag(x, FNeg(y))

MulFlag(x, y) ==
    \/ IsInf(x) /\ y = 0
    \/ x = 0 /\ IsInf(y)
    \/ IsFinite(x) /\ IsFinite(y) /\ ~IsFinite(FMul(x, y))

DivFlag(x, y) ==
    \/ IsInf(x) /\ IsInf(y)
    \/ x = 0 /\ y = 0
    \/ IsFinite(x) /\ x # 0 /\ y = 0
    \/ IsFinite(x) /\ IsFinite(y) /\ y # 0 /\ ~IsFinite(FDiv(x, y))

(***************************************************************************)
(* Elementary functions of the format.  log10 and 10**d are computed from  *)
(* the binary logarithm, piecewise linear in the mantissa, to 2^-10; both  *)
(* are monotone, log10(1) = 0, log10(0) = -inf.                            *)
(***************************************************************************)
LogOne == 2^10

\* floor(log2) and the linear fraction of a positive number of steps.
Log2Steps(n) ==
    LET m  == Mant(n)
        bm == BitLen(m) - 1
    IN  (bm + Expo(n) - FracBits) * LogOne + ((m - 2^bm) * LogOne) \div 2^bm

\* np.log10
Log10(x) ==
    IF IsNaN(x) \/ x < 0 THEN NaN
    ELSE IF x = 0 THEN NInf
    ELSE IF x = PInf THEN PInf
    ELSE LET l10 == (Log2Steps(x) * 1233) \div 4096
         IN  Signed(Sign(l10), RoundMK(Mag(l10), FracBits - 10, 0))

\* 10**d
Pow10(d) ==
    IF IsNaN(d) THEN NaN
    ELSE IF d = PInf \/ (IsFinite(d) /\ d >= (ExpMax + 2) * One) THEN PInf
    ELSE IF d = NInf \/ d <= (0 - (FracBits + 2)) * One THEN 0
    ELSE LET d10 == d \div 2^(FracBits - 10)
             y   == (d10 * 3402) \div 1024
         IN  RoundMK(LogOne + (y % LogOne), (y \div LogOne) + FracBits - 10, 0)

\* x**-2, correctly rounded
PowM2(x) ==
    IF IsNaN(x) THEN NaN
    ELSE IF IsInf(x) THEN 0
    ELSE IF x = 0 THEN PInf
    ELSE LET guard == 3 * MantBits + 2
             m2    == Mant(Mag(x)) * Mant(Mag(x))
         IN  RoundMK(2^guard \div m2,
                     3 * FracBits - 2 * Expo(Mag(x)) - guard,
                     IF 2^guard % m2 = 0 THEN 0 ELSE 1)

\* np.finfo(np.float64).eps: the gap between 1 and the next value
Eps == One \div 2^(MantBits - 1)

Two == FromInt(2)

(***************************************************************************)
(* Sequences.                                                              *)
(***************************************************************************)
\* an array as it is stored: the sequence of its entries
AsArray(s) == s \o <<>>

RECURSIVE MaxAbsIn(_, _, _)
\* the largest of abs(s[lo]), ..., abs(s[hi]), lo <= hi, all finite
MaxAbsIn(s, lo, hi) ==
    IF lo = hi THEN FAbs(s[lo])
    ELSE MaxOf(MaxAbsIn(s, lo, (lo + hi) \div 2),
               MaxAbsIn(s, (lo + hi) \div 2 + 1, hi))

\* np.max(np.abs(s)) of the first n entries of s, n >= 1, all finite
SeqMaxAbs(s, n) == MaxAbsIn(s, 1, n)

RECURSIVE SumFrom(_, _, _, _)
\* acc + s[i] + s[i + step] + ... over the indices <= last, left to right
SumFrom(s, i, step, last) ==
    IF i > last THEN 0
    ELSE IF i + step > last THEN s[i]
    ELSE FAdd(SumFrom(s, i, step, last - step), s[last - ((last - i) % step)])

RECURSIVE AddTail(_, _, _, _)
\* ((acc + s[i]) + s[i+1]) + ... + s[last]
AddTail(acc, s, i, last) ==
    IF i > last THEN acc ELSE AddTail(FAdd(acc, s[i]), s, i + 1, last)

\* numpy's pairwise summation of at most 128 entries s[lo..hi]: eight
\* running lanes, combined as a tree, then the remainder one by one.
BlockSum(s, lo, hi, n, full) ==
    IF n < 8 THEN AddTail(0, s, lo, hi)
    ELSE AddTail(FAdd(FAdd(FAdd(SumFrom(s, lo, 8, lo + full - 1),
                                SumFrom(s, lo + 1, 8, lo + full - 1)),
                           FAdd(SumFrom(s, lo + 2, 8, lo + full - 1),
                                SumFrom(s, lo + 3, 8, lo + full - 1))),
                      FAdd(FAdd(SumFrom(s, lo + 4, 8, lo + full - 1),
                                SumFrom(s, lo + 5, 8, lo + full - 1)),
                           FAdd(SumFrom(s, lo + 6, 8, lo + full - 1),
                                SumFrom(s, lo + 7, 8, lo + full - 1)))),
                 s, lo + full, hi)

RECURSIVE PairwiseSum(_, _, _)
\* numpy's pairwise summation of s[lo..hi]: more than 128 entries are cut
\* in two, the first part a multiple of eight entries long
PairwiseSum(s, lo, hi) ==
    IF hi - lo + 1 > 128
    THEN FAdd(PairwiseSum(s, lo,
                          lo + ((hi - lo + 1) \div 2)
                             - (((hi - lo + 1) \div 2) % 8) - 1),
              PairwiseSum(s, lo + ((hi - lo + 1) \div 2)
                                - (((hi - lo + 1) \div 2) % 8), hi))
    ELSE BlockSum(s, lo, hi, hi - lo + 1, (hi - lo + 1) - ((hi - lo + 1) % 8))

\* np.sum of a one-dimensional array: add.reduce starts from the first entry
NpSum(s) ==
    IF Len(s) = 0 THEN 0
    ELSE IF Len(s) = 1 THEN s[1]
    ELSE FAdd(s[1], PairwiseSum(s, 2, Len(s)))

\* np.max of a list: NaN if any entry is NaN
NpMax4(w, x, y, z) ==
    IF IsNaN(w) \/ IsNaN(x) \/ IsNaN(y) \/ IsNaN(z) THEN NaN
    ELSE MaxOf(MaxOf(w, x), MaxOf(y, z))

\* Python's builtin max(x, y): y if y > x else x
PyMax(x, y) == IF FGt(y, x) THEN y ELSE x

(***************************************************************************)
(* _compute_pairs                                                          *)
(***************************************************************************)
\* The closed forms wj(t) = (pi/2) cosh t / cosh((pi/2) sinh t)^2 and
\* xjc(t) = 1 / (exp((pi/2) sinh t) cosh((pi/2) sinh t)) at t = i/16, in
\* units of 2^-24 (zero from the end of each table on).
TabOne == 2^24

TabPerUnit == 2^4

WeightTab ==
    << 26353589, 26151877, 25556460, 24595641, 23313867, 21768031,
       20022987, 18146824, 16206398, 14263534, 12372154, 10576443, 8910015,
       7395954, 6047539, 4869431, 3859135, 3008564, 2305560, 1735304,
       1281540, 927607, 657248, 455225, 307747, 202728, 129899, 80804,
       48696, 28368, 15937, 8613, 4466, 2215, 1048, 472, 201, 81, 31, 11,
       4, 1 >>

ComplementTab ==
    << 16777216, 15134326, 13516447, 11947392, 10448687, 9038666, 7731835,
       6538523, 5464818, 4512769, 3680796, 2964249, 2356040, 1847316,
       1428089, 1087820, 815910, 602098, 436763, 311136, 217423, 148864,
       99732, 65286, 41694, 25934, 15683, 9203, 5230, 2872, 1520, 774, 378,
       176, 79, 33, 13, 5, 2, 1 >>

FromTab(tab, i) ==
    IF i + 1 > Len(tab) THEN 0 ELSE RoundMK(tab[i + 1], FracBits - 24, 0)

\* MaxIndex with the floor for the ceiling
MaxIndexFloor(k) == (6115 * 2^k) \div 1000

\* max = int(np.ceil(6.115 * 2**k))
MaxIndex(k) == (6115 * 2^k + 999) \div 1000

\* PairIndices with every index at every level
PairIndicesAll(k) == [i \in 1..MaxIndex(k) |-> i - 1]

\* j = np.arange(max) if k == 0 else np.arange(1, max, 2)
PairIndices(k) ==
    IF k = 0 THEN [i \in 1..MaxIndex(0) |-> i - 1]
    ELSE [i \in 1..(MaxIndex(k) \div 2) |-> 2 * i - 1]

\* the position of j * h = j * 2^-k in the tables; from level 5 on, the table
\* entry at or below it
TabIndex(k, j) == (j * TabPerUnit) \div 2^k

WeightAt(k, j) == FromTab(WeightTab, TabIndex(k, j))

ComplementAt(k, j) == FromTab(ComplementTab, TabIndex(k, j))

\* FirstWeight halving the first weight of every level
FirstWeightEvery(k, w) == FDiv(w, Two)

\* wj[0] = wj[0] / 2 if k == 0 else wj[0]
FirstWeight(k, w) == IF k = 0 THEN FDiv(w, Two) ELSE w

\* the number of pairs of level k: len(j)
NumPairs(k) == IF k = 0 THEN MaxIndex(0) ELSE MaxIndex(k) \div 2

compute_pairs(k) ==
    [h   |-> FDiv(One, FromInt(2^k)),
     xjc |-> AsArray([i \in 1..NumPairs(k) |->
                         ComplementAt(k, PairIndices(k)[i])]),
     wj  |-> AsArray([i \in 1..NumPairs(k) |->
                         IF i = 1
                         THEN FirstWeight(k, WeightAt(k, PairIndices(k)[1]))
                         ELSE WeightAt(k, PairIndices(k)[i])])]

(***************************************************************************)
(* The caller's arguments.  A real-valued argument is [t, v]: t the Python *)
(* type it is given as, v its value in the format (0 for a value that is   *)
(* no real).  maxfun and maxiter are [t, v] with v a plain integer.  The   *)
(* integrand is [callable, kind, c, x0, v]:                                *)
(*   kind "const": f(x) = c;   kind "ident": f(x) = x;                     *)
(*   kind "pole":  f(x) = v at x = x0 and c elsewhere.                     *)
(***************************************************************************)
\* the user's integrand at one point
UserF(f, x) ==
    CASE f.kind = "const" -> f.c
      [] f.kind = "ident" -> x
      [] f.kind = "pole"  -> IF x = f.x0 THEN f.v ELSE f.c

\* np.asarray(list).dtype for a list of Python scalars of the types ts
ArrayDtype(ts) ==
    IF \E i \in DOMAIN ts : ts[i] = "str" THEN "str"
    ELSE IF \E i \in DOMAIN ts : ts[i] = "complex" THEN "complex"
    ELSE IF \E i \in DOMAIN ts : ts[i] = "float" THEN "float"
    ELSE "int"

\* np.issubdtype(params.dtype, np.floating) for a, b, atol, rtol, minweight
IsFloating(ts) == ArrayDtype(ts) = "float"

\* np.issubdtype(params.dtype, np.integer) for maxfun, maxiter
IsInteger(ts) == ArrayDtype(ts) = "int"

\* IvMessage without the test of the signs of maxfun and maxiter
IvMessageUnsigned(g) ==
    LET rt == <<g.a.t, g.b.t, g.atol.t, g.rtol.t, g.minweight.t>>
        rv == <<g.a.v, g.b.v, g.atol.v, g.rtol.v, g.minweight.v>>
    IN  IF ~g.f.callable THEN "f must be callable."
        ELSE IF ~IsFloating(rt) \/ (\E i \in 1..5 : IsNaN(rv[i]))
            THEN "Integration limits a and b, tolerances atol and rtol, and minweight must be reals."
        ELSE IF (\E i \in 4..5 : FLe(rv[i], 0)) \/ (\E i \in 4..5 : IsInf(rv[i]))
            THEN "rtol and minweight must be positive and finite."
        ELSE IF FLt(g.atol.v, 0) \/ IsInf(g.atol.v)
            THEN "atol must be non-negative and finite."
        ELSE IF ~IsInteger(<<g.maxfun.t, g.maxiter.t>>)
            THEN "maxfun and maxiter must be integers."
        ELSE ""

\* The ValueError message of _quadts_iv (written without the backquotes
\* around the parameter names), "" when the arguments pass.
IvMessage(g) ==
    LET rt == <<g.a.t, g.b.t, g.atol.t, g.rtol.t, g.minweight.t>>
        rv == <<g.a.v, g.b.v, g.atol.v, g.rtol.v, g.minweight.v>>
    IN  IF ~g.f.callable THEN "f must be callable."
        ELSE IF ~IsFloating(rt) \/ (\E i \in 1..5 : IsNaN(rv[i]))
            THEN "Integration limits a and b, tolerances atol and rtol, and minweight must be reals."
        ELSE IF (\E i \in 4..5 : FLe(rv[i], 0)) \/ (\E i \in 4..5 : IsInf(rv[i]))
            THEN "rtol and minweight must be positive and finite."
        ELSE IF FLt(g.atol.v, 0) \/ IsInf(g.atol.v)
            THEN "atol must be non-negative and finite."
        ELSE IF ~IsInteger(<<g.maxfun.t, g.maxiter.t>>)
            THEN "maxfun and maxiter must be integers."
        ELSE IF g.maxfun.v <= 0 \/ g.maxiter.v <= 0
            THEN "maxfun and maxiter must be positive."
        ELSE ""

\* Transform without the exchange of reversed limits
TransformUnswapped(f, a0, b0) ==
    LET fold    == IsInf(a0) /\ IsInf(b0)
        reflect == ~fold /\ IsInf(a0)
        a2      == IF fold THEN 0 ELSE IF reflect THEN FNeg(b0) ELSE a0
        b2      == IF fold THEN PInf ELSE IF reflect THEN FNeg(a0) ELSE b0
        upinf   == IsInf(b2)
    IN  [f |-> [base |-> f, neg |-> FALSE, fold |-> fold, reflect |-> reflect,
                upinf |-> upinf, shift |-> a2],
         a |-> IF upinf THEN 0 ELSE a2,
         b |-> IF upinf THEN One ELSE b2,
         feval_factor |-> IF fold THEN 2 ELSE 1]

\* Transform with the lower limit of the last substitution taken as it was
\* before the reflection
TransformEarlyShift(f, a0, b0) ==
    LET neg     == FLt(b0, a0)
        a1      == IF neg THEN b0 ELSE a0
        b1      == IF neg THEN a0 ELSE b0
        fold    == IsInf(a1) /\ IsInf(b1)
        reflect == ~fold /\ IsInf(a1)
        a2      == IF fold THEN 0 ELSE IF reflect THEN FNeg(b1) ELSE a1
        b2      == IF fold THEN PInf ELSE IF reflect THEN FNeg(a1) ELSE b1
        upinf   == IsInf(b2)
    IN  [f |-> [base |-> f, neg |-> neg, fold |-> fold, reflect |-> reflect,
                upinf |-> upinf, shift |-> IF fold THEN 0 ELSE a1],
         a |-> IF upinf THEN 0 ELSE a2,
         b |-> IF upinf THEN One ELSE b2,
         feval_factor |-> IF fold THEN 2 ELSE 1]

\* The integrand and limits after the substitutions of _quadts_iv.  The
\* wrapped integrand is [base, neg, fold, reflect, upinf, shift]:
\*   neg      x -> -f(x)                         (reversed limits)
\*   fold     x -> f(x) + f(-x)                  (both limits infinite)
\*   reflect  x -> f(-x)                         (lower limit infinite)
\*   upinf    x -> f(1/x - 1 + shift) * x**-2    (upper limit infinite)
\* applied in this order, innermost first.
Transform(f, a0, b0) ==
    LET neg     == FLt(b0, a0)
        a1      == IF neg THEN b0 ELSE a0
        b1      == IF neg THEN a0 ELSE b0
        fold    == IsInf(a1) /\ IsInf(b1)
        reflect == ~fold /\ IsInf(a1)
        a2      == IF fold THEN 0 ELSE IF reflect THEN FNeg(b1) ELSE a1
        b2      == IF fold THEN PInf ELSE IF reflect THEN FNeg(a1) ELSE b1
        upinf   == IsInf(b2)
    IN  [f |-> [base |-> f, neg |-> neg, fold |-> fold, reflect |-> reflect,
                upinf |-> upinf, shift |-> a2],
         a |-> IF upinf THEN 0 ELSE a2,
         b |-> IF upinf THEN One ELSE b2,
         feval_factor |-> IF fold THEN 2 ELSE 1]

\* one call of the wrapped integrand at x
EvalF(w, x) ==
    LET inner(y) == IF w.neg THEN FNeg(UserF(w.base, y)) ELSE UserF(w.base, y)
        mid(y)   == IF w.fold THEN FAdd(inner(y), inner(FNeg(y)))
                    ELSE IF w.reflect THEN inner(FNeg(y))
                    ELSE inner(y)
    IN  IF w.upinf
        THEN FMul(mid(FAdd(FSub(FDiv(One, x), One), w.shift)), PowM2(x))
        ELSE mid(x)

_status_messages(status) ==
    CASE status = 0 - 1 -> "Iteration in progress."
      [] status = 0 -> "The algorithm completed successfully, and the error estimate meets the requested tolerance."
      [] status = 1 -> "The error estimate does not meet the specified tolerance, but performing additional iterations cause the function evaluation limit to be exceeded."
      [] status = 2 -> "The error estimate does not meet the specified tolerance, but performing additional iterations would cause the iteration limit to be exceeded."
      [] status = 3 -> "An invalid value (e.g. overflow, NaN) was encountered within the integration interval. See documentation notes for more information."

(***************************************************************************)
(* One invocation of _tanhsinh: its arguments, its local variables, and    *)
(* where it stands.                                                        *)
(*   pc      "iv" before _quadts_iv, "loop" in the for loop, "return"      *)
(*           after the loop, "done" once returned, "raised" after a        *)
(*           ValueError                                                    *)
(*   fcalls  calls of the user's integrand so far                          *)
(*   npairs  calls of _compute_pairs so far                                *)
(*   warned  a floating-point warning has reached the caller               *)
(*   ret     the returned QuadratureResult, <<>> before the return         *)
(***************************************************************************)
NoF == [callable |-> TRUE, kind |-> "const", c |-> 0, x0 |-> 0, v |-> 0]

NewCall(args) ==
    [pc |-> "iv", args |-> args, err |-> "",
     f |-> Transform(NoF, 0, 0).f, a |-> 0, b |-> 0,
     maxfun |-> 0, maxiter |-> 0, atol |-> 0, rtol |-> 0, minweight |-> 0,
     feval_factor |-> 0,
     n |-> 0, Sk |-> <<>>, Sn |-> NaN, aerr |-> NaN, rerr |-> NaN,
     status |-> 0 - 1, feval |-> 0,
     h |-> 0, xj |-> <<>>, wj |-> <<>>, fj |-> <<>>, fjwj |-> <<>>,
     fcalls |-> 0, npairs |-> 0, warned |-> FALSE, ret |-> <<>>]

\* res = _quadts_iv(...) and the initialization of the locals
Enter(r) ==
    LET g   == r.args
        msg == IvMessage(g)
        t   == Transform(g.f, g.a.v, g.b.v)
    IN  IF msg # "" THEN [r EXCEPT !.pc = "raised", !.err = msg]
        ELSE [r EXCEPT !.pc = "loop",
                       !.f = t.f, !.a = t.a, !.b = t.b,
                       !.maxfun = g.maxfun.v, !.maxiter = g.maxiter.v,
                       !.atol = g.atol.v, !.rtol = g.rtol.v,
                       !.minweight = g.minweight.v,
                       !.feval_factor = t.feval_factor,
                       !.Sk = <<>>, !.Sn = NaN, !.aerr = NaN,
                       !.status = 0 - 1, !.feval = 0]

\* invalid = (xj <= a) | (xj >= b) | (wj <= minweight)
Invalid(x, w, a, b, minweight) == FLe(x, a) \/ FGe(x, b) \/ FLe(w, minweight)

\* LastColumnMax taken over the whole second half of the batch
LastHalfMax(fjwj) == MaxAbsIn(fjwj, Len(fjwj) \div 2 + 1, Len(fjwj))

\* np.max(np.reshape(np.abs(fjwj), (2, -1))[:, -1])
LastColumnMax(fjwj) ==
    LET m == Len(fjwj) \div 2
    IN  MaxOf(FAbs(fjwj[m]), FAbs(fjwj[2 * m]))

\* the relative error estimate of level n >= 2
RelErr(Sn, Snm1, Snm2, fjwj) ==
    LET d1 == Log10(FAbs(FSub(Sn, Snm1)))
        d2 == Log10(FAbs(FSub(Sn, Snm2)))
        d3 == Log10(FMul(Eps, SeqMaxAbs(fjwj, Len(fjwj))))
        d4 == Log10(LastColumnMax(fjwj))
        d  == NpMax4(FDiv(FMul(d1, d1), d2), FMul(Two, d1), d3, d4)
    IN  Pow10(d)

\* aerr = max(np.finfo(np.float64).eps, rerr) * abs(Sn)
AbsErr(rerr, Sn) == FMul(PyMax(Eps, rerr), FAbs(Sn))

\* if rerr < rtol or rerr*abs(Sn) < atol
Converged(rerr, Sn, rtol, atol) ==
    FLt(rerr, rtol) \/ FLt(FMul(rerr, FAbs(Sn)), atol)

\* OverBudget without the points of the level about to be evaluated
OverBudgetSpent(feval, len, factor, maxfun) == feval > maxfun

\* OverBudget without the factor of the folded integrand
OverBudgetUnfolded(feval, len, factor, maxfun) == feval + len > maxfun

\* OverBudget with twice the limit
OverBudgetDoubled(feval, len, factor, maxfun) ==
    feval + len * factor > 2 * maxfun

\* if feval + len(xj) * feval_factor > maxfun
OverBudget(feval, len, factor, maxfun) == feval + len * factor > maxfun

\* Estimate without the halving of the previous estimate
EstimateUnhalved(Snm1, fjwj, h) == FAdd(Snm1, FMul(NpSum(fjwj), h))

\* Sn = Snm1/2 + np.sum(fjwj) * h
Estimate(Snm1, fjwj, h) == FAdd(FDiv(Snm1, Two), FMul(NpSum(fjwj), h))

\* xj = np.concatenate((-alpha * xjc + b, alpha * xjc + a))
Abscissas(xjc, m, alpha, a, b) ==
    [i \in 1..m |-> FAdd(FMul(FNeg(alpha), xjc[i]), b)]
        \o [i \in 1..m |-> FAdd(FMul(alpha, xjc[i]), a)]

\* wj *= alpha; wj = np.concatenate((wj, wj))
Scaled(wj, m, alpha) == [i \in 1..m |-> FMul(wj[i], alpha)]

Weights(wj, m, alpha) == Scaled(wj, m, alpha) \o Scaled(wj, m, alpha)

\* fj = f(xj)
Values(f, xj) == AsArray([i \in DOMAIN xj |-> EvalF(f, xj[i])])

\* Contributions without fjwj[invalid] = 0
ContributionsUnfiltered(fj, xj, wj, a, b, minweight) ==
    AsArray([i \in DOMAIN xj |-> FMul(fj[i], wj[i])])

\* fjwj = fj * wj; fjwj[invalid] = 0
Contributions(fj, xj, wj, a, b, minweight) ==
    AsArray([i \in DOMAIN xj |->
                IF Invalid(xj[i], wj[i], a, b, minweight) THEN 0
                ELSE FMul(fj[i], wj[i])])

\* LastEstimate taking the first estimate of the list
LastEstimateFirst(Sk) == IF Sk = <<>> THEN 0 ELSE Sk[1]

\* Snm1 = 0 if not Sk else Sk[-1]
LastEstimate(Sk) == IF Sk = <<>> THEN 0 ELSE Sk[Len(Sk)]

\* Checked with the error estimate taken from the second level on
CheckedFromSecond(r, Sn, rerr) ==
    IF r.n >= 1
    THEN IF Converged(rerr, Sn, r.rtol, r.atol)
         THEN [r EXCEPT !.Sn = Sn, !.rerr = rerr, !.aerr = AbsErr(rerr, Sn),
                        !.status = 0, !.pc = "return"]
         ELSE [r EXCEPT !.Sn = Sn, !.rerr = rerr, !.aerr = AbsErr(rerr, Sn),
                        !.Sk = Append(@, Sn), !.n = @ + 1]
    ELSE [r EXCEPT !.Sn = Sn, !.Sk = Append(@, Sn), !.n = @ + 1]

\* The warnings of the statements of the loop that are in no np.errstate
\* block, or in one that does not ignore them.
\* fjwj = fj * wj
ProductWarns(fj, wj) == \E i \in DOMAIN fj : MulFlag(fj[i], wj[i])

\* Sn = Snm1/2 + sum * h, where sum = np.sum(fjwj) of finite values
SumWarns(Snm1, sum, h) ==
    \/ ~IsFinite(sum)
    \/ MulFlag(sum, h)
    \/ AddFlag(FDiv(Snm1, Two), FMul(sum, h))

EstimateWarns(Snm1, fjwj, h) == SumWarns(Snm1, NpSum(fjwj), h)

\* rerr = 10**d
PowWarns(d) == IsFinite(d) /\ ~IsFinite(Pow10(d))

\* d = np.max([d1**2/d2, 2*d1, d3, d4]) and rerr, in no errstate block
DWarns(d1, d2, d3, d4) ==
    \/ MulFlag(d1, d1) \/ MulFlag(Two, d1)
    \/ DivFlag(FMul(d1, d1), d2)
    \/ PowWarns(NpMax4(FDiv(FMul(d1, d1), d2), FMul(Two, d1), d3, d4))

\* d1 .. d4 under np.errstate(divide='ignore'), which lets log10(0) pass
RelErrWarns(Sn, Snm1, Snm2, fjwj) ==
    \/ SubFlag(Sn, Snm1) \/ SubFlag(Sn, Snm2)
    \/ DWarns(Log10(FAbs(FSub(Sn, Snm1))), Log10(FAbs(FSub(Sn, Snm2))),
              Log10(FMul(Eps, SeqMaxAbs(fjwj, Len(fjwj)))),
              Log10(LastColumnMax(fjwj)))

\* aerr = max(eps, rerr) * abs(Sn); rerr < rtol or rerr*abs(Sn) < atol
ToleranceWarns(rerr, Sn, rtol) ==
    \/ MulFlag(PyMax(Eps, rerr), FAbs(Sn))
    \/ ~FLt(rerr, rtol) /\ MulFlag(rerr, FAbs(Sn))

\* the warnings of a level from the update of Sn to the test of rerr
LevelWarns(r, Sn) ==
    \/ EstimateWarns(LastEstimate(r.Sk), r.fjwj, r.h)
    \/ /\ r.n >= 2
       /\ \/ RelErrWarns(Sn, r.Sk[Len(r.Sk)], r.Sk[Len(r.Sk) - 1], r.fjwj)
          \/ ToleranceWarns(RelErr(Sn, r.Sk[Len(r.Sk)],
                                   r.Sk[Len(r.Sk) - 1], r.fjwj), Sn, r.rtol)

\* r once a warning of the level has reached the caller
Warned(r, w) == [r EXCEPT !.warned = @ \/ w]

\* Checked with the estimate of a converged level appended as well
CheckedAppending(r, Sn, rerr) ==
    IF r.n >= 2
    THEN IF Converged(rerr, Sn, r.rtol, r.atol)
         THEN [r EXCEPT !.Sn = Sn, !.rerr = rerr, !.aerr = AbsErr(rerr, Sn),
                        !.Sk = Append(@, Sn),
                        !.status = 0, !.pc = "return"]
         ELSE [r EXCEPT !.Sn = Sn, !.rerr = rerr, !.aerr = AbsErr(rerr, Sn),
                        !.Sk = Append(@, Sn), !.n = @ + 1]
    ELSE [r EXCEPT !.Sn = Sn, !.Sk = Append(@, Sn), !.n = @ + 1]

\* The body of "for n in range(maxiter)", in the order of the code:
\* from the estimate of a level that passed the budget and validity checks on
Checked(r, Sn, rerr) ==
    IF r.n >= 2
    THEN IF Converged(rerr, Sn, r.rtol, r.atol)
         THEN [r EXCEPT !.Sn = Sn, !.rerr = rerr, !.aerr = AbsErr(rerr, Sn),
                        !.status = 0, !.pc = "return"]
         ELSE [r EXCEPT !.Sn = Sn, !.rerr = rerr, !.aerr = AbsErr(rerr, Sn),
                        !.Sk = Append(@, Sn), !.n = @ + 1]
    ELSE [r EXCEPT !.Sn = Sn, !.Sk = Append(@, Sn), !.n = @ + 1]

Updated(r, Sn) ==
    Warned(Checked(r, Sn,
                   IF r.n >= 2
                   THEN RelErr(Sn, r.Sk[Len(r.Sk)], r.Sk[Len(r.Sk) - 1],
                               r.fjwj)
                   ELSE r.rerr),
           LevelWarns(r, Sn))

\* Evaluated with np.any for np.all: only a level without any finite
\* contribution is given up
EvaluatedAny(r) ==
    IF \A i \in DOMAIN r.fjwj : ~IsFinite(r.fjwj[i])
    THEN [r EXCEPT !.status = 3, !.pc = "return"]
    ELSE Updated(r, Estimate(LastEstimate(r.Sk), r.fjwj, r.h))

\* Evaluated with the estimate updated before the check for infinities
EvaluatedLate(r) ==
    IF \E i \in DOMAIN r.fjwj : ~IsFinite(r.fjwj[i])
    THEN [r EXCEPT !.status = 3, !.pc = "return",
                   !.Sn = Estimate(LastEstimate(r.Sk), r.fjwj, r.h)]
    ELSE Updated(r, Estimate(LastEstimate(r.Sk), r.fjwj, r.h))

\* from the evaluation of the integrand on
Evaluated(r) ==
    IF \E i \in DOMAIN r.fjwj : ~IsFinite(r.fjwj[i])
    THEN [r EXCEPT !.status = 3, !.pc = "return"]
    ELSE Updated(r, Estimate(LastEstimate(r.Sk), r.fjwj, r.h))

\* Evaluate counting one evaluation for each point of the level, also when
\* the integrand is folded
EvaluateUnfolded(r, fj) ==
    Evaluated([r EXCEPT !.fj = fj,
                        !.fjwj = Contributions(fj, r.xj, r.wj, r.a, r.b,
                                               r.minweight),
                        !.feval = @ + Len(r.xj),
                        !.fcalls = @ + r.feval_factor])

Evaluate(r, fj) ==
    Evaluated([r EXCEPT !.fj = fj,
                        !.fjwj = Contributions(fj, r.xj, r.wj, r.a, r.b,
                                               r.minweight),
                        !.feval = @ + Len(r.xj) * r.feval_factor,
                        !.fcalls = @ + r.feval_factor,
                        !.warned = @ \/ ProductWarns(fj, r.wj)])

\* Budgeted with the integrand called before the budget is tested whenever
\* the level holds a non-finite contribution
BudgetedLate(r) ==
    IF \E i \in DOMAIN r.xj :
           /\ ~Invalid(r.xj[i], r.wj[i], r.a, r.b, r.minweight)
           /\ ~IsFinite(FMul(EvalF(r.f, r.xj[i]), r.wj[i]))
    THEN Evaluate(r, Values(r.f, r.xj))
    ELSE IF OverBudget(r.feval, Len(r.xj), r.feval_factor, r.maxfun)
    THEN [r EXCEPT !.status = 1, !.pc = "return"]
    ELSE Evaluate(r, Values(r.f, r.xj))

\* from the budget check on
Budgeted(r) ==
    IF OverBudget(r.feval, Len(r.xj), r.feval_factor, r.maxfun)
    THEN [r EXCEPT !.status = 1, !.pc = "return"]
    ELSE Evaluate(r, Values(r.f, r.xj))

Paired(r, p, m, alpha) ==
    Budgeted([r EXCEPT !.h = p.h,
                       !.xj = Abscissas(p.xjc, m, alpha, r.a, r.b),
                       !.wj = Weights(p.wj, m, alpha),
                       !.warned = @ \/ SubFlag(r.b, r.a),
                       !.npairs = @ + 1])

Iteration(r) ==
    Paired(r, compute_pairs(r.n), NumPairs(r.n), FDiv(FSub(r.b, r.a), Two))

\* LoopElse without the assignment to status
LoopElseSilent(r) == [r EXCEPT !.pc = "return"]

\* the else branch of the for loop: the range is used up
LoopElse(r) == [r EXCEPT !.status = 2, !.pc = "return"]

\* Result with success for every run that did not meet an invalid value
ResultLenient(r) ==
    [integral |-> r.Sn, error |-> r.aerr, feval |-> r.feval,
     success |-> (r.status # 3), status |-> r.status,
     message |-> _status_messages(r.status)]

\* return QuadratureResult(...)
Result(r) ==
    [integral |-> r.Sn, error |-> r.aerr, feval |-> r.feval,
     success |-> (r.status = 0), status |-> r.status,
     message |-> _status_messages(r.status)]

Return(r) == [r EXCEPT !.pc = "done", !.ret = <<Result(r)>>]

(***************************************************************************)
(* The state: one invocation, and a second one for the statements that     *)
(* compare two invocations.                                                *)
(***************************************************************************)
VARIABLES run, run2

vars == <<run, run2>>

\* the bound on maxiter
MaxIter == 3

Float(v) == [t |-> "float", v |-> v]

Integer(i) == [t |-> "int", v |-> i]

Frac(p, q) == FDiv(FromInt(p), FromInt(q))

ConstF(c) == [callable |-> TRUE, kind |-> "const", c |-> c, x0 |-> 0, v |-> 0]

IdentF == [callable |-> TRUE, kind |-> "ident", c |-> 0, x0 |-> 0, v |-> 0]

PoleF(c, x0, v) ==
    [callable |-> TRUE, kind |-> "pole", c |-> c, x0 |-> x0, v |-> v]

\* where the integrands of the model have their exceptional value
PoleSet == {Frac(1, 2), Frac(27, 32), Frac(11, 16), One}

Integrands ==
    {ConstF(One), IdentF, PoleF(One, Frac(1, 2), NaN)}
        \cup {PoleF(One, x0, PInf) : x0 \in PoleSet}

Limits == {NInf, 0, One, PInf}

MaxFuns == {13, 14, 27, 28, 5000}

RTols == {Frac(1, 16), Frac(1, 4)}

ATols == {0, Frac(1, 4)}

MinWeights == {1, Frac(1, 8)}

\* the arguments of the model that pass validation
ValidArgs ==
    {[f |-> f, a |-> Float(a), b |-> Float(b),
      maxfun |-> Integer(mf), maxiter |-> Integer(mi),
      atol |-> Float(at), rtol |-> Float(rt), minweight |-> Float(mw)] :
        f \in Integrands, a \in Limits, b \in Limits, mf \in MaxFuns,
        mi \in 1..MaxIter, at \in ATols, rt \in RTols, mw \in MinWeights}

Idle == [NewCall(CHOOSE g \in ValidArgs : TRUE) EXCEPT !.pc = "idle"]

Init ==
    /\ run \in {NewCall(g) : g \in ValidArgs}
    /\ run2 = Idle

DoEnter ==
    /\ run.pc = "iv"
    /\ run' = Enter(run)
    /\ UNCHANGED run2

\* DoIteration with one pass more than range(maxiter) has
DoIterationOnceMore ==
    /\ run.pc = "loop"
    /\ run.n <= run.maxiter
    /\ run' = Iteration(run)
    /\ UNCHANGED run2

DoIteration ==
    /\ run.pc = "loop"
    /\ run.n < run.maxiter
    /\ run' = Iteration(run)
    /\ UNCHANGED run2

DoLoopElse ==
    /\ run.pc = "loop"
    /\ run.n >= run.maxiter
    /\ run' = LoopElse(run)
    /\ UNCHANGED run2

DoReturn ==
    /\ run.pc = "return"
    /\ run' = Return(run)
    /\ UNCHANGED run2

Next == DoEnter \/ DoIteration \/ DoLoopElse \/ DoReturn

Spec == Init /\ [][Next]_vars

(***************************************************************************)
(* Two invocations that differ in the order of the limits only, each taking *)
(* its steps as above.                                                      *)
(***************************************************************************)
\* the next step of an invocation, where it has one
Step(r) ==
    CASE r.pc = "iv" -> Enter(r)
      [] r.pc = "loop" /\ r.n < r.maxiter -> Iteration(r)
      [] r.pc = "loop" /\ r.n >= r.maxiter -> LoopElse(r)
      [] r.pc = "return" -> Return(r)
      [] OTHER -> r

Finished(r) == r.pc \in {"done", "raised"}

Reversed(g) == [g EXCEPT !.a = g.b, !.b = g.a]

\* the options of the pairs of invocations
PairArgs ==
    {g \in ValidArgs : /\ g.maxfun.v \in {28, 5000}
                       /\ g.atol.v = 0
                       /\ g.rtol.v = Frac(1, 4)}

InitRev ==
    \E g \in PairArgs :
        /\ run = NewCall(g)
        /\ run2 = NewCall(Reversed(g))

DoBoth ==
    /\ ~(Finished(run) /\ Finished(run2))
    /\ run' = Step(run)
    /\ run2' = Step(run2)

NextRev == DoBoth

SpecRev == InitRev /\ [][NextRev]_vars

(***************************************************************************)
(* One invocation with arguments of any type and value.                    *)
(***************************************************************************)
IntReal(i) == [t |-> "int", v |-> FromInt(i)]

Complex == [t |-> "complex", v |-> 0]

Str == [t |-> "str", v |-> 0]

NotCallable ==
    [callable |-> FALSE, kind |-> "const", c |-> 0, x0 |-> 0, v |-> 0]

AnyArgs ==
    {[f |-> f, a |-> a, b |-> b, maxfun |-> mf, maxiter |-> mi,
      atol |-> at, rtol |-> rt, minweight |-> mw] :
        f  \in {ConstF(One), NotCallable},
        a  \in {Float(0), IntReal(0), Float(NInf), Float(NaN), Str},
        b  \in {Float(One), IntReal(1), Float(PInf)},
        at \in {Float(0), IntReal(0), Float(FNeg(One)), Float(PInf),
                Float(NaN)},
        rt \in {Float(Frac(1, 4)), IntReal(1), Float(0), Float(PInf),
                Complex},
        mw \in {Float(Frac(1, 8)), IntReal(1), Float(FNeg(One)), Float(PInf)},
        mf \in {Integer(14), Integer(28), Integer(0), Float(14)},
        mi \in {Integer(1), Integer(0 - 1), Float(1)}}

InitIV ==
    /\ run \in {NewCall(g) : g \in AnyArgs}
    /\ run2 = Idle

SpecIV == InitIV /\ [][Next]_vars

(***************************************************************************)
(* Properties of one invocation with arguments that pass validation.       *)
(***************************************************************************)
Returned == run.pc = "done"

\* the value of the returned record
res == run.ret[1]

\* C1: a call whose arguments pass validation never raises, leaves the loop
\* with status 0, 1, 2 or 3, and returns a record with that status (never the
\* in-progress code -1), whichever way the loop ended.
C1_ReturnsStatus ==
    IvMessage(run.args) = "" =>
        /\ run.pc \in {"iv", "loop", "return", "done"}
        /\ run.pc = "return" => run.status \in 0..3
        /\ Returned => Len(run.ret) = 1 /\ res.status \in 0..3

\* a run that used up its iterations has returned
C1_Witness == Returned /\ res.status = 2 /\ run.n = MaxIter

\* C2: in every returned record success is true exactly when status is 0,
\* and message is the text the table of status messages holds for status.
C2_SuccessAndMessage ==
    Returned =>
        /\ res.success <=> (res.status = 0)
        /\ res.message = _status_messages(res.status)
        /\ res.status = run.status

\* a run stopped by the function limit after its first level has returned
C2_Witness == Returned /\ res.status = 1 /\ ~res.success /\ res.feval > 0

\* C3: feval never decreases in a step of the run, and after every step and
\* in the returned record it is at most maxfun.
C3_FevalBounded ==
    [][/\ run.feval <= run'.feval
       /\ run'.feval <= run'.args.maxfun.v
       /\ run'.pc = "done" => run'.ret[1].feval = run'.feval]_vars

\* a run that has spent exactly maxfun evaluations has returned
C3_Witness == Returned /\ res.feval = run.args.maxfun.v

\* C4: a returned record with status 0 has an error below atol or below
\* rtol * |integral|.
C4_ErrorMeetsTolerance ==
    (Returned /\ res.status = 0) =>
        \/ FLt(res.error, run.args.atol.v)
        \/ FLt(res.error, FMul(run.args.rtol.v, FAbs(res.integral)))

\* a converged run has returned
C4_Witness == Returned /\ res.status = 0 /\ res.success

\* the evaluations of the first level: 14, and 28 when both limits are
\* infinite
FirstLevelEvaluations(g) == IF IsInf(g.a.v) /\ IsInf(g.b.v) THEN 28 ELSE 14

\* C6: with maxfun below the evaluations of the first level the returned
\* record has status 1, integral NaN, error NaN, feval 0 and success false,
\* and the integrand was never called.
C6_FirstLevelOverBudget ==
    (Returned /\ run.args.maxfun.v < FirstLevelEvaluations(run.args)) =>
        /\ res.status = 1
        /\ IsNaN(res.integral)
        /\ IsNaN(res.error)
        /\ res.feval = 0
        /\ ~res.success
        /\ run.fcalls = 0

\* a run over both infinite limits with maxfun = 27 has returned
C6_Witness ==
    /\ Returned
    /\ run.args.maxfun.v = 27
    /\ IsInf(run.args.a.v) /\ IsInf(run.args.b.v)
    /\ res.status = 1

\* the level whose points are in xj has been evaluated
LevelEvaluated ==
    /\ run.pc \in {"loop", "return", "done"}
    /\ run.npairs > 0
    /\ run.fcalls = run.npairs * run.feval_factor

\* the transformed integrand returned +inf, -inf or NaN at a point strictly
\* inside (a, b) whose weight exceeds minweight
InvalidValueInside ==
    \E i \in DOMAIN run.xj :
        /\ ~IsFinite(run.fj[i])
        /\ ~Invalid(run.xj[i], run.wj[i], run.a, run.b, run.minweight)

\* C7: when the level just evaluated has such a value, the run ends with
\* status 3 and returns success false, whatever the other values and the
\* estimates of earlier levels.
C7_InvalidValueStops ==
    (LevelEvaluated /\ InvalidValueInside) =>
        /\ run.pc \in {"return", "done"}
        /\ run.status = 3
        /\ Returned => res.status = 3 /\ ~res.success

\* a run that met such a value at its third level, next to finite values and
\* after two estimates, has returned
C7_Witness ==
    /\ Returned
    /\ LevelEvaluated /\ InvalidValueInside
    /\ Len(run.Sk) = 2
    /\ \E i \in DOMAIN run.fjwj : IsFinite(run.fjwj[i]) /\ run.fjwj[i] # 0

\* the third level (n = 2) has computed an estimate
ThirdLevelEstimated == Len(run.Sk) >= 3 \/ run.status = 0

\* C8: error is NaN as long as the third level has not computed an estimate,
\* and so in every record returned with status 1, 2 or 3 before that.
C8_ErrorNaNBeforeThirdLevel ==
    /\ ~ThirdLevelEstimated => IsNaN(run.aerr)
    /\ run.n < 2 => ~ThirdLevelEstimated
    /\ Returned => res.error = run.aerr

\* a run given up at its third level, after two estimates, has returned
C8_Witness ==
    /\ Returned
    /\ res.status \in {1, 3}
    /\ Len(run.Sk) = 2
    /\ ~IsNaN(res.integral)
    /\ IsNaN(res.error)

(***************************************************************************)
(* Properties of two invocations with the limits in either order.          *)
(***************************************************************************)
BothReturned == run.pc = "done" /\ run2.pc = "done"

\* C5: with the same integrand and options, the invocation over (b, a)
\* returns the exact negation of the integral the invocation over (a, b)
\* returns (NaN for NaN), and the same status, feval and error, for limits
\* finite or infinite, equal or not.
C5_ReversalNegates ==
    BothReturned =>
        /\ run2.ret[1].integral = FNeg(run.ret[1].integral)
        /\ run2.ret[1].status = run.ret[1].status
        /\ run2.ret[1].feval = run.ret[1].feval
        /\ run2.ret[1].error = run.ret[1].error

\* two invocations over different limits, one of them infinite, have returned
\* a finite integral other than zero
C5_Witness ==
    /\ BothReturned
    /\ run.args.a.v # run.args.b.v
    /\ IsInf(run.args.b.v)
    /\ IsFinite(run.ret[1].integral) /\ run.ret[1].integral # 0
    /\ run2.ret[1].integral = FNeg(run.ret[1].integral)

(***************************************************************************)
(* Properties of the validation.                                           *)
(***************************************************************************)
\* a real number: a Python float or int
IsRealNumber(p) == p.t \in {"float", "int"}

\* The inputs the validator is stated to reject: f not callable; one of a,
\* b, atol, rtol, minweight no real number or NaN; rtol or minweight <= 0 or
\* infinite; atol < 0 or infinite; maxfun or maxiter no integer or <= 0.
StatedInvalid(g) ==
    \/ ~g.f.callable
    \/ \E p \in {g.a, g.b, g.atol, g.rtol, g.minweight} :
          ~IsRealNumber(p) \/ IsNaN(p.v)
    \/ \E p \in {g.rtol, g.minweight} : FLe(p.v, 0) \/ IsInf(p.v)
    \/ FLt(g.atol.v, 0) \/ IsInf(g.atol.v)
    \/ \E p \in {g.maxfun, g.maxiter} : p.t # "int" \/ p.v <= 0

\* C9: an invocation with an invalid input raises the ValueError of the
\* validator before anything is computed: the integrand is never called, no
\* pairs are generated and no record is returned.
C9_InvalidRaisesFirst ==
    (StatedInvalid(run.args) /\ run.pc # "iv") =>
        /\ run.pc = "raised"
        /\ run.err # ""
        /\ run.fcalls = 0
        /\ run.npairs = 0
        /\ run.ret = <<>>

\* an invocation with maxiter = -1 and nothing else invalid has raised
C9_Witness ==
    /\ run.pc = "raised"
    /\ run.args.maxiter = Integer(0 - 1)
    /\ run.err = "maxfun and maxiter must be positive."

\* C10: the validator rejects an input exactly when it is one of those
\* stated; every other input is accepted, among them infinite limits and
\* reals given as integers.
C10_RejectsExactly ==
    run.pc # "iv" => ((run.pc = "raised") <=> StatedInvalid(run.args))

\* an invocation over an infinite range, with a tolerance given as an
\* integer, was accepted and has returned
C10_Witness ==
    /\ Returned
    /\ IsInf(run.args.b.v)
    /\ run.args.rtol.t = "int"
    /\ ~StatedInvalid(run.args)

(***************************************************************************)
(* One invocation over a wider choice of limits, with a budget of          *)
(* evaluations that no level of the model exhausts.                        *)
(***************************************************************************)
\* the default of maxfun
DefaultMaxFun == 5000

WideLimits ==
    {NInf, FNeg(One), 0, Frac(1, 32), One, Frac(17, 16), Two, PInf}

WideArgs ==
    {[f |-> f, a |-> Float(a), b |-> Float(b),
      maxfun |-> Integer(DefaultMaxFun), maxiter |-> Integer(mi),
      atol |-> Float(0), rtol |-> Float(rt), minweight |-> Float(mw)] :
        f \in {ConstF(0), ConstF(One), ConstF(FNeg(Two)), IdentF},
        a \in WideLimits, b \in WideLimits,
        mi \in 1..MaxIter, rt \in RTols, mw \in MinWeights}

InitLim ==
    /\ run \in {NewCall(g) : g \in WideArgs}
    /\ run2 = Idle

SpecLim == InitLim /\ [][Next]_vars

(***************************************************************************)
(* Properties of the estimates.                                            *)
(***************************************************************************)
\* a constant integrand over a finite interval a < b, with all the levels
\* of the model allowed
ConstantOverInterval(g) ==
    /\ g.f.kind = "const"
    /\ IsFinite(g.a.v) /\ IsFinite(g.b.v) /\ FLt(g.a.v, g.b.v)
    /\ g.maxiter.v = MaxIter

\* |x - y| <= rtol * |y|
Within(x, y, rtol) == FLe(FAbs(FSub(x, y)), FMul(rtol, FAbs(y)))

\* C11: for a constant integrand f(x) = c over a finite interval a < b the
\* run ends with status 0 and an integral within rtol of c * (b - a).
C11_ConstantConverges ==
    (Returned /\ ConstantOverInterval(run.args)) =>
        /\ res.status = 0
        /\ Within(res.integral,
                  FMul(run.args.f.c, FSub(run.args.b.v, run.args.a.v)),
                  run.args.rtol.v)

\* the run over (0, 1) of f(x) = 0 has returned status 2 after estimates
\* that are all 0 and an error estimate that is NaN
C11_Witness ==
    /\ Returned /\ ConstantOverInterval(run.args)
    /\ run.args.f.c = 0
    /\ run.args.a.v = 0 /\ run.args.b.v = One
    /\ run.Sk = <<0, 0, 0>>
    /\ IsNaN(run.rerr)
    /\ res.status = 2 /\ res.integral = 0

(***************************************************************************)
(* Properties of the transformation of the limits.                         *)
(***************************************************************************)
\* the limits have been transformed
Transformed == run.pc \in {"loop", "return", "done"}

\* C12, as stated: for every valid pair of raw limits the transformed limits
\* are (0, 1).
C12_UnitInterval == Transformed => (run.a = 0 /\ run.b = One)

\* C12, as the code has it: the transformed limits are finite and in order;
\* they are (0, 1) when a raw limit is infinite, and the raw limits in
\* increasing order when both are finite.
C12_TransformedLimits ==
    Transformed =>
        LET a0 == run.args.a.v
            b0 == run.args.b.v
        IN  /\ IsFinite(run.a) /\ IsFinite(run.b) /\ FLe(run.a, run.b)
            /\ (IsInf(a0) \/ IsInf(b0)) => (run.a = 0 /\ run.b = One)
            /\ (IsFinite(a0) /\ IsFinite(b0)) =>
                  /\ run.a = (IF FLt(b0, a0) THEN b0 ELSE a0)
                  /\ run.b = (IF FLt(b0, a0) THEN a0 ELSE b0)

\* an invocation over the reversed finite limits (2, -1) integrates over
\* (-1, 2)
C12_Witness ==
    /\ Returned
    /\ run.args.a.v = Two /\ run.args.b.v = FNeg(One)
    /\ run.a = FNeg(One) /\ run.b = Two
    /\ run.f.neg

(***************************************************************************)
(* Properties of the evaluation counter.                                   *)
(***************************************************************************)
\* the levels whose integrand has been evaluated: the level that converged
\* or met an invalid value is one of them, a level that was over the budget
\* is not
EvaluatedLevels(r) == IF r.status \in {0, 3} THEN r.n + 1 ELSE r.n

RECURSIVE BatchSum(_)
\* the points of the levels 0 .. e - 1, twice the number of pairs of each
BatchSum(e) == IF e = 0 THEN 0 ELSE BatchSum(e - 1) + 2 * NumPairs(e - 1)

\* 2 exactly when both raw limits are infinite
RawFactor(g) == IF IsInf(g.a.v) /\ IsInf(g.b.v) THEN 2 ELSE 1

\* C13: feval is the factor times the points of the levels evaluated,
\* filtered points and the level that ended with status 3 included, a level
\* over the budget excluded; after the first level it is 14, or 28 with both
\* raw limits infinite; the returned record holds it.
C13_FevalCountsBatches ==
    Transformed =>
        /\ run.feval = RawFactor(run.args) * BatchSum(EvaluatedLevels(run))
        /\ run.fcalls = RawFactor(run.args) * EvaluatedLevels(run)
        /\ EvaluatedLevels(run) = 1 =>
              run.feval = (IF RawFactor(run.args) = 2 THEN 28 ELSE 14)
        /\ Returned => res.feval = run.feval

\* a run over both infinite limits that met an invalid value at its second
\* level, next to filtered points, has returned
C13_Witness ==
    /\ Returned
    /\ RawFactor(run.args) = 2
    /\ res.status = 3 /\ run.n = 1
    /\ res.feval = 2 * (14 + 12)
    /\ \E i \in DOMAIN run.xj :
          Invalid(run.xj[i], run.wj[i], run.a, run.b, run.minweight)

(***************************************************************************)
(* Properties of the floating-point warnings.                              *)
(***************************************************************************)
\* C14: no floating-point warning of the internal arithmetic reaches the
\* caller.
C14_NoWarningEscapes == ~run.warned

\* the run over (0, 1) of f(x) = 0 has raised a warning at its third level,
\* where d1**2/d2 is inf/-inf, and has returned
C14_Witness ==
    /\ Returned
    /\ run.warned
    /\ run.args.f = ConstF(0)
    /\ run.args.a.v = 0 /\ run.args.b.v = One
    /\ run.Sk = <<0, 0, 0>>

(***************************************************************************)
(* Two invocations with the same limits and options, the integrand of the  *)
(* second being the first's without its exceptional value.                 *)
(***************************************************************************)
PoleValues == {PInf, NaN, Two}

FiltArgs ==
    {[f |-> PoleF(One, x0, v), a |-> Float(a), b |-> Float(b),
      maxfun |-> Integer(mf), maxiter |-> Integer(mi),
      atol |-> Float(0), rtol |-> Float(rt), minweight |-> Float(mw)] :
        x0 \in PoleSet, v \in PoleValues, a \in Limits, b \in Limits,
        mf \in {28, DefaultMaxFun}, mi \in 1..MaxIter, rt \in RTols,
        mw \in MinWeights}

Smoothed(g) == [g EXCEPT !.f = ConstF(g.f.c)]

InitFilt ==
    \E g \in FiltArgs :
        /\ run = NewCall(g)
        /\ run2 = NewCall(Smoothed(g))

SpecFilt == InitFilt /\ [][NextRev]_vars

\* the levels at which r has called its integrand
LevelsCalled(r) == r.fcalls \div r.feval_factor

\* the two integrands agree at x unless the point (x, w) is filtered
AgreeUnlessFiltered(x, w) ==
    EvalF(run.f, x) # EvalF(run2.f, x)
        => Invalid(x, w, run.a, run.b, run.minweight)

\* the two integrands differ only at filtered points of level k
AgreeAtLevel(xjc, wj, m, alpha) ==
    \A i \in 1..(2 * m) :
        AgreeUnlessFiltered(Abscissas(xjc, m, alpha, run.a, run.b)[i],
                            Weights(wj, m, alpha)[i])

\* the two integrands differ only at filtered evaluation points
DifferOnlyWhereFiltered ==
    \A k \in 0..(MaxOf(LevelsCalled(run), LevelsCalled(run2)) - 1) :
        AgreeAtLevel(compute_pairs(k).xjc, compute_pairs(k).wj, NumPairs(k),
                     FDiv(FSub(run.b, run.a), Two))

\* the integrands do differ at an evaluation point of the first level
DifferAtFirstLevel ==
    \E i \in DOMAIN Abscissas(compute_pairs(0).xjc, NumPairs(0),
                              FDiv(FSub(run.b, run.a), Two), run.a, run.b) :
        EvalF(run.f, Abscissas(compute_pairs(0).xjc, NumPairs(0),
                               FDiv(FSub(run.b, run.a), Two),
                               run.a, run.b)[i])
            # EvalF(run2.f, Abscissas(compute_pairs(0).xjc, NumPairs(0),
                                      FDiv(FSub(run.b, run.a), Two),
                                      run.a, run.b)[i])

\* C15: two integrands that differ only at filtered evaluation points (xj <= a,
\* xj >= b or weight <= minweight) give, with the same limits and options,
\* results identical in integral, error, feval and status; and a run ends with
\* status 3 only for a non-finite contribution of a point that is not filtered.
C15_FilteredPointsIgnored ==
    /\ BothReturned /\ DifferOnlyWhereFiltered
        => /\ run.ret[1].integral = run2.ret[1].integral
           /\ run.ret[1].error = run2.ret[1].error
           /\ run.ret[1].feval = run2.ret[1].feval
           /\ run.ret[1].status = run2.ret[1].status
    /\ run.pc = "done" /\ run.status = 3
        => \E i \in DOMAIN run.xj :
               /\ ~Invalid(run.xj[i], run.wj[i], run.a, run.b, run.minweight)
               /\ ~IsFinite(FMul(run.fj[i], run.wj[i]))

\* both have returned, the integrands differing by an infinite value at a
\* filtered point of the first level and nowhere else
C15_Witness ==
    /\ BothReturned
    /\ DifferOnlyWhereFiltered
    /\ DifferAtFirstLevel
    /\ run.args.f.v = PInf
    /\ run.status = 0

(***************************************************************************)
(* Two invocations with the same integrand, limits and tolerances: the     *)
(* first with the default maxfun and maxiter, the second with one, both or *)
(* none of them increased.                                                 *)
(***************************************************************************)
DefaultMaxIter == 10

DefaultArgs ==
    {[f |-> f, a |-> Float(l[1]), b |-> Float(l[2]),
      maxfun |-> Integer(DefaultMaxFun), maxiter |-> Integer(DefaultMaxIter),
      atol |-> Float(0), rtol |-> Float(Frac(1, 16)),
      minweight |-> Float(mw)] :
        f \in {ConstF(0), ConstF(One)},
        l \in {<<0, One>>, <<One, One>>, <<NInf, PInf>>, <<0, PInf>>},
        mw \in MinWeights}

Increased(g, mf, mi) ==
    [g EXCEPT !.maxfun = Integer(mf), !.maxiter = Integer(mi)]

InitMax ==
    \E g \in DefaultArgs :
        \E mf \in {DefaultMaxFun, 2 * DefaultMaxFun} :
            \E mi \in {DefaultMaxIter, DefaultMaxIter + 1} :
                /\ run = NewCall(g)
                /\ run2 = NewCall(Increased(g, mf, mi))

SpecMax == InitMax /\ [][NextRev]_vars

\* both have returned, the integrand finite throughout and not converged
NeitherConverged ==
    /\ BothReturned
    /\ run.ret[1].status \in {1, 2}
    /\ run2.ret[1].status \in {1, 2}

\* C16: with an integrand that stays finite and does not converge, the call
\* with the default maxfun = 5000 and maxiter = 10 and a call in which at most
\* one of the two is increased return the same status, feval, integral and
\* error.
C16_OneLimitNoEffect ==
    /\ NeitherConverged
    /\ \/ run2.maxfun = DefaultMaxFun
       \/ run2.maxiter = DefaultMaxIter
    => /\ run.ret[1].status = run2.ret[1].status
       /\ run.ret[1].feval = run2.ret[1].feval
       /\ run.ret[1].integral = run2.ret[1].integral
       /\ run.ret[1].error = run2.ret[1].error

\* the defaults stop at the tenth level for maxfun; with maxfun alone
\* increased, all ten levels are evaluated
C16_Witness ==
    /\ NeitherConverged
    /\ run2.maxfun > DefaultMaxFun
    /\ run2.maxiter = DefaultMaxIter
    /\ run.ret[1].status = 1
    /\ run.n = DefaultMaxIter - 1
    /\ run2.ret[1].status = 2
    /\ run2.ret[1].feval > DefaultMaxFun

\* increasing maxiter alone changes nothing
MaxIterAloneNoEffect ==
    NeitherConverged /\ run2.maxfun = DefaultMaxFun
        => /\ run.ret[1].status = run2.ret[1].status
           /\ run.ret[1].feval = run2.ret[1].feval
           /\ run.ret[1].integral = run2.ret[1].integral
           /\ run.ret[1].error = run2.ret[1].error

(***************************************************************************)
(* _compute_pairs on its own: the levels 0 .. k are generated, as the loop *)
(* of _tanhsinh does, and a step position j * 2^-k is looked for in them.  *)
(* The positions jh = j * h are exact in float64 (j < 2^53, h a power of   *)
(* two), so a position of level i is held as its index j.                  *)
(***************************************************************************)
\* the bound on the level k
MaxLevel == 5

\* run before and after _compute_pairs(0), ..., _compute_pairs(k)
PairsCall(k, j) == [pc |-> "pairs", k |-> k, j |-> j]

PairsDone(r) ==
    [pc |-> "paired", k |-> r.k, j |-> r.j,
     steps |-> [i \in 0..r.k |-> PairIndices(i)],
     pairs |-> compute_pairs(r.k)]

InitPairs ==
    /\ \E k \in 0..MaxLevel :
           \E j \in 0..MaxIndex(k) : run = PairsCall(k, j)
    /\ run2 = Idle

DoComputePairs ==
    /\ run.pc = "pairs"
    /\ run' = PairsDone(run)
    /\ UNCHANGED run2

NextPairs == DoComputePairs

SpecPairs == InitPairs /\ [][NextPairs]_vars

\* ceil(6.115 * 2^k), the least m with m >= 6.115 * 2^k
GridSize(k) ==
    CHOOSE m \in 0..(7 * 2^k) :
        1000 * m >= 6115 * 2^k /\ 1000 * (m - 1) < 6115 * 2^k

\* the (level, place) pairs at which the position j * 2^-k was generated
GeneratedAt(steps, k, j) ==
    {ip \in UNION {{<<i, m>> : m \in DOMAIN steps[i]} : i \in 0..k} :
        steps[ip[1]][ip[2]] * 2^(k - ip[1]) = j}

\* C17: the step positions generated at the levels 0 .. k are pairwise
\* distinct and make up exactly the grid {j * 2^-k : 0 <= j < ceil(6.115*2^k)}:
\* every grid position is generated exactly once, nothing else is generated,
\* and each level after the first adds positions.
C17_NestedExactRefinement ==
    run.pc = "paired"
        => /\ run.j < GridSize(run.k)
                => Cardinality(GeneratedAt(run.steps, run.k, run.j)) = 1
           /\ run.j >= GridSize(run.k)
                => GeneratedAt(run.steps, run.k, run.j) = {}
           /\ \A i \in 0..run.k : Len(run.steps[i]) > 0

\* a position of the level-3 grid that was generated at level 1
C17_Witness ==
    /\ run.pc = "paired"
    /\ run.k = 3
    /\ run.j = 12
    /\ GeneratedAt(run.steps, run.k, run.j) = {<<1, 2>>}

\* C18: _compute_pairs(k) returns h = 2^-k and one (xjc, wj) pair for each of
\* the indices 0 .. M-1 when k = 0 and the odd indices below M when k > 0,
\* M = ceil(6.115 * 2^k): 7 pairs at level 0, floor(M/2) pairs at level k > 0
\* (6, 12, 24, 49, 98 at the levels 1 .. 5), xjc and wj of the same length.
C18_PairsOfLevel ==
    run.pc = "paired"
        => /\ run.pairs.h * 2^run.k = One
           /\ Len(run.pairs.xjc) = Len(run.pairs.wj)
           /\ Len(run.pairs.xjc) = Len(run.steps[run.k])
           /\ run.k = 0 =>
                /\ Len(run.pairs.xjc) = 7
                /\ \A m \in 1..7 : run.steps[0][m] = m - 1
           /\ run.k > 0 =>
                /\ Len(run.pairs.xjc) = GridSize(run.k) \div 2
                /\ \A m \in 1..Len(run.pairs.xjc) :
                       run.steps[run.k][m] = 2 * m - 1
           /\ run.k \in 1..5 =>
                Len(run.pairs.xjc) = <<6, 12, 24, 49, 98>>[run.k]

\* level 4, the first with an odd number of grid positions above the first
C18_Witness ==
    /\ run.pc = "paired"
    /\ run.k = 4
    /\ Len(run.pairs.wj) = 49
    /\ run.steps[4][49] = 97

\* the level whose abscissas and weights run holds, once there is one
Level == run.npairs - 1

HasLevel == run.pc \in {"loop", "return", "done"} /\ run.npairs >= 1

\* alpha = (b-a)/2
Alpha == FDiv(FSub(run.b, run.a), Two)

\* the interval midpoint (a+b)/2
Midpoint == FDiv(FAdd(run.a, run.b), Two)

LevelGivenUp ==
    /\ run.pc = "loop"
    /\ run'.pc = "return"
    /\ run'.status \in {1, 3}

\* C20: a level n that ends the run with status 1 or 3 leaves the integral
\* and the error as they were after level n-1 (both NaN when n = 0) and
\* appends nothing to the estimate sequence; with status 1 the integrand is
\* not called for level n and feval is unchanged.
C20_GivenUpLevelKeepsEstimate ==
    [][LevelGivenUp
           => /\ run'.Sn = run.Sn
              /\ run'.aerr = run.aerr
              /\ run'.Sk = run.Sk
              /\ run.n = 0 => IsNaN(run'.Sn) /\ IsNaN(run'.aerr)
              /\ run'.status = 1 =>
                    /\ run'.fcalls = run.fcalls
                    /\ run'.feval = run.feval]_vars

\* the second level met a non-finite value; the estimate of the first stands
C20_Witness ==
    /\ run.pc = "return"
    /\ run.status = 3
    /\ run.n = 1
    /\ run.Sk = <<run.Sn>>
    /\ IsFinite(run.Sn)
    /\ run.fcalls = 2 * run.feval_factor

\* the step is one pass through the body of the loop
LevelStep == run.pc = "loop" /\ run.n < run.maxiter /\ run' # run

\* the level of the step asks for more evaluations than maxfun allows
StepOverBudget ==
    OverBudget(run.feval, Len(run'.xj), run.feval_factor, run.maxfun)

\* the level of the step has a contribution that is not finite
StepNonFinite ==
    \E xj \in {run'.xj} : \E wj \in {run'.wj} : \E i \in DOMAIN xj :
        /\ ~Invalid(xj[i], wj[i], run.a, run.b, run.minweight)
        /\ ~IsFinite(FMul(EvalF(run.f, xj[i]), wj[i]))

\* the level of the step passes the convergence test
StepConverged ==
    run.n >= 2 /\ Converged(run'.rerr, run'.Sn, run.rtol, run.atol)

\* C21: within a level the causes of termination are tested in the order
\* function budget (status 1, the integrand not called), non-finite
\* contribution (status 3), convergence (status 0, only for n >= 2), and the
\* first that applies ends the run; status 2 is returned exactly when all
\* maxiter levels were evaluated and none ended the run; at most maxiter
\* levels are evaluated.
C21_TerminationOrder ==
    [][/\ LevelStep =>
            IF StepOverBudget
            THEN /\ run'.pc = "return" /\ run'.status = 1
                 /\ run'.fcalls = run.fcalls
            ELSE IF StepNonFinite
            THEN run'.pc = "return" /\ run'.status = 3
            ELSE IF StepConverged
            THEN run'.pc = "return" /\ run'.status = 0
            ELSE run'.pc = "loop" /\ run'.n = run.n + 1
       /\ run'.pc \in {"return", "done"} =>
            /\ run'.status = 2 <=> run'.n = run'.maxiter
            /\ run'.status = 2 => LevelsCalled(run') = run'.maxiter
       /\ run'.pc \in {"loop", "return", "done"} =>
            LevelsCalled(run') <= run'.maxiter]_vars

\* the last permitted level converged: status 0, not 2
C21_Witness ==
    /\ Returned
    /\ res.status = 0
    /\ run.n = run.maxiter - 1
    /\ LevelsCalled(run) = run.maxiter

\* C22: Sk is append-only and holds exactly n entries at the start of level
\* n: a level that does not end the run appends exactly one estimate, a level
\* that ends it (status 0, 1 or 3) appends nothing, no other step changes Sk,
\* and at every level n >= 2 the two previous estimates exist and are finite.
C22_EstimatesAppendOnly ==
    [][/\ run'.pc \in {"loop", "return", "done"} => Len(run'.Sk) = run'.n
       /\ LevelStep =>
            IF run'.pc = "loop"
            THEN run'.Sk = Append(run.Sk, run'.Sn)
            ELSE run'.Sk = run.Sk /\ run'.status \in {0, 1, 3}
       /\ ~LevelStep /\ run.pc # "iv" => run'.Sk = run.Sk
       /\ run.pc = "loop" /\ run.n >= 2 =>
            /\ Len(run.Sk) >= 2
            /\ IsFinite(run.Sk[Len(run.Sk)])
            /\ IsFinite(run.Sk[Len(run.Sk) - 1])]_vars

\* the third level converged: its estimate is returned and not appended
C22_Witness ==
    /\ Returned
    /\ res.status = 0
    /\ Len(run.Sk) = 2
    /\ run.Sk[2] # run.Sn
    /\ run.n = 2

\* the step is a level that reaches the update of the estimate
LevelEstimated == LevelStep /\ (run'.pc = "loop" \/ run'.status = 0)

\* C23: at every level that reaches the update, Sn = Sprev/2 + h * (sum of
\* the filtered contributions of the level), Sprev being the last appended
\* estimate, 0 at level 0, and h = 2^-n.
C23_EstimateUpdate ==
    [][LevelEstimated =>
         \A xj \in {run'.xj} : \A wj \in {run'.wj} : \A fjwj \in {run'.fjwj} :
             /\ run'.h * 2^run.n = One
             /\ \A i \in DOMAIN xj :
                    fjwj[i] =
                        IF Invalid(xj[i], wj[i], run.a, run.b, run.minweight)
                        THEN 0
                        ELSE FMul(EvalF(run.f, xj[i]), wj[i])
             /\ run'.Sn =
                    FAdd(FDiv(IF run.n = 0 THEN 0 ELSE run.Sk[run.n], Two),
                         FMul(NpSum(fjwj), run'.h))]_vars

\* the estimate of the second level, made of half the first and of its own
\* contributions, neither of them zero
C23_Witness ==
    /\ run.pc = "loop"
    /\ run.n = 2
    /\ run.Sk[1] # 0
    /\ NpSum(run.fjwj) # 0
    /\ run.Sn = FAdd(FDiv(run.Sk[1], Two), FMul(NpSum(run.fjwj), run.h))
    /\ run.Sn # run.Sk[1]

\* the step is a level that reaches the error estimate
LevelErrorEstimated == LevelEstimated /\ run.n >= 2

\* rerr = 10**d for the terms d1**2/d2, 2*d1, d3 and d4, where d1, d2 and d3
\* come from the new estimate Sn, the two before it and the batch fjwj
ErrorWith(Sn, Snm1, Snm2, fjwj, d4) ==
    Pow10(NpMax4(FDiv(FMul(Log10(FAbs(FSub(Sn, Snm1))),
                           Log10(FAbs(FSub(Sn, Snm1)))),
                      Log10(FAbs(FSub(Sn, Snm2)))),
                 FMul(Two, Log10(FAbs(FSub(Sn, Snm1)))),
                 Log10(FMul(Eps, MaxAbsIn(fjwj, 1, Len(fjwj)))),
                 d4))

\* C24 as stated: d4 is log10 of the largest absolute contribution over the
\* last half of the points of the level's batch.
C24_LastHalf ==
    [][LevelErrorEstimated =>
         \A fjwj \in {run'.fjwj} :
             run'.rerr =
                 ErrorWith(run'.Sn, run.Sk[run.n], run.Sk[run.n - 1], fjwj,
                           Log10(MaxAbsIn(fjwj, Len(fjwj) \div 2 + 1,
                                          Len(fjwj))))]_vars

\* C24: d4 is log10 of the larger of two absolute contributions, that of the
\* last point of the first half of the batch and that of the last point of
\* the second half, the two points of the level nearest to the limits b and a.
C24_LastOfEachHalf ==
    [][LevelErrorEstimated =>
         \A fjwj \in {run'.fjwj} :
             run'.rerr =
                 ErrorWith(run'.Sn, run.Sk[run.n], run.Sk[run.n - 1], fjwj,
                           Log10(MaxOf(FAbs(fjwj[Len(fjwj) \div 2]),
                                       FAbs(fjwj[Len(fjwj)]))))]_vars

\* an error estimate that the largest contribution of the last half would
\* have made larger
C24_Witness ==
    /\ run.pc \in {"loop", "return"}
    /\ run.status \in {0 - 1, 0}
    /\ Len(run.Sk) >= 2
    /\ run.npairs = Len(run.Sk) + 1
    /\ IsFinite(run.rerr)
    /\ MaxAbsIn(run.fjwj, Len(run.fjwj) \div 2 + 1, Len(run.fjwj))
           > MaxOf(FAbs(run.fjwj[Len(run.fjwj) \div 2]),
                   FAbs(run.fjwj[Len(run.fjwj)]))
    /\ FLt(run.rerr, Pow10(Log10(MaxAbsIn(run.fjwj, Len(run.fjwj) \div 2 + 1,
                                          Len(run.fjwj)))))

\* 1/x - 1 + a
Substituted(x, a) == FAdd(FSub(FDiv(One, x), One), a)

\* run holds the integrand's values at the abscissas of its level
HasValues == HasLevel /\ run.fcalls >= 1 /\ Len(run.fj) = Len(run.xj)

\* the wrapped integrand of run is [neg, fold, reflect, upinf, shift] over
\* the caller's integrand, on the interval (0, 1)
WrappedAs(neg, fold, reflect, shift, factor) ==
    /\ run.f = [base |-> run.args.f, neg |-> neg, fold |-> fold,
                reflect |-> reflect, upinf |-> TRUE, shift |-> shift]
    /\ run.a = 0 /\ run.b = One
    /\ run.feval_factor = factor

\* C25: the substitution for an infinite upper limit, g(x) = f(1/x - 1 + a) *
\* x^-2 on (0, 1), uses the lower limit a as the earlier rules left it: the
\* raw a for (a, +inf); the raw b, with the integrand negated, for the
\* reversed limits (+inf, b); -b, composed with x -> -x, for (-inf, b); 0,
\* composed with the fold f(x) + f(-x), for (-inf, +inf).  Stated of the
\* wrapped integrand and of the values it gave at the abscissas of the level.
C25_SubstitutionOrder ==
    Transformed =>
        LET a0 == run.args.a.v
            b0 == run.args.b.v
            f  == run.args.f
        IN  /\ IsFinite(a0) /\ b0 = PInf =>
                /\ WrappedAs(FALSE, FALSE, FALSE, a0, 1)
                /\ HasValues =>
                     \A i \in DOMAIN run.xj :
                         run.fj[i] =
                             FMul(UserF(f, Substituted(run.xj[i], a0)),
                                  PowM2(run.xj[i]))
            /\ a0 = PInf /\ IsFinite(b0) =>
                /\ WrappedAs(TRUE, FALSE, FALSE, b0, 1)
                /\ HasValues =>
                     \A i \in DOMAIN run.xj :
                         run.fj[i] =
                             FMul(FNeg(UserF(f, Substituted(run.xj[i], b0))),
                                  PowM2(run.xj[i]))
            /\ a0 = NInf /\ IsFinite(b0) =>
                /\ WrappedAs(FALSE, FALSE, TRUE, FNeg(b0), 1)
                /\ HasValues =>
                     \A i \in DOMAIN run.xj :
                         run.fj[i] =
                             FMul(UserF(f, FNeg(Substituted(run.xj[i],
                                                            FNeg(b0)))),
                                  PowM2(run.xj[i]))
            /\ a0 = NInf /\ b0 = PInf =>
                /\ WrappedAs(FALSE, TRUE, FALSE, 0, 2)
                /\ HasValues =>
                     \A i \in DOMAIN run.xj :
                         run.fj[i] =
                             FMul(FAdd(UserF(f, Substituted(run.xj[i], 0)),
                                       UserF(f, FNeg(Substituted(run.xj[i],
                                                                 0)))),
                                  PowM2(run.xj[i]))

\* f(x) = x over (-inf, 1) has been evaluated: the substitution uses -1
C25_Witness ==
    /\ HasValues
    /\ run.args.f = IdentF
    /\ run.args.a.v = NInf
    /\ run.args.b.v = One
    /\ run.f.shift = FNeg(One)
    /\ \E i \in DOMAIN run.xj :
           /\ IsFinite(run.fj[i])
           /\ run.fj[i] < 0
           /\ run.fj[i] = FMul(FNeg(Substituted(run.xj[i], FNeg(One))),
                               PowM2(run.xj[i]))

(***************************************************************************)
(* The invocation as a sequential program: a statement that can be         *)
(* executed is executed.  This is WF_vars(Next) written out: a statement   *)
(* can be executed in every state but the final one (pc = "done"), so      *)
(* "infinitely often no step is possible" reads "infinitely often done".   *)
(***************************************************************************)
SpecLive ==
    Init /\ [][Next]_vars /\ ([]<>(run.pc = "done") \/ []<><<Next>>_vars)

\* the abscissas of level n on the interval of run
BatchOf(n) ==
    Abscissas(compute_pairs(n).xjc, NumPairs(n),
              FDiv(FSub(run.b, run.a), Two), run.a, run.b)

\* C26: every call returns; at most maxiter levels are evaluated, and a level
\* calls the transformed integrand at most once, with the whole batch of the
\* abscissas of the level.
C26_Terminates ==
    /\ <>(run.pc = "done")
    /\ [][/\ run'.pc \in {"loop", "return", "done"} =>
               LevelsCalled(run') <= run'.maxiter
          /\ run.pc \in {"loop", "return", "done"} =>
               \/ run'.fcalls = run.fcalls
               \/ /\ run.pc = "loop"
                  /\ LevelsCalled(run') = LevelsCalled(run) + 1
                  /\ LevelsCalled(run') = run.n + 1
                  /\ run'.xj = BatchOf(run.n)
                  /\ Len(run'.fj) = Len(run'.xj)]_vars

\* a run that called its integrand maxiter times has returned
C26_Witness ==
    /\ Returned
    /\ run.maxiter = MaxIter
    /\ LevelsCalled(run) = run.maxiter
    /\ run.fcalls = MaxIter * run.feval_factor

\* the filtered contributions of the points xj with the weights wj
ContributionsAt(xj, wj) ==
    Contributions(Values(run.f, xj), xj, wj, run.a, run.b, run.minweight)

\* the filtered contributions of level k on the interval of run
LevelContributions(k) ==
    ContributionsAt(BatchOf(k),
                    Weights(compute_pairs(k).wj, NumPairs(k),
                            FDiv(FSub(run.b, run.a), Two)))

RECURSIVE AllContributions(_)
\* the filtered contributions of the levels 0 .. k, in the order of evaluation
AllContributions(k) ==
    IF k = 0 THEN LevelContributions(0)
    ELSE AllContributions(k - 1) \o LevelContributions(k)

\* 2^-n times the sum of the contributions of every point of the levels 0 .. n
FullSum(n) == FMul(NpSum(AllContributions(n)), FDiv(One, FromInt(2^n)))

RECURSIVE Incremental(_)
\* the estimate of level n built level by level from the contributions
Incremental(n) ==
    Estimate(IF n = 0 THEN 0 ELSE Incremental(n - 1), LevelContributions(n),
             FDiv(One, FromInt(2^n)))

\* the last level whose update of the estimate was completed, -1 if none,
\* up to the return statement, which leaves Sn as it is
EstimatedLevel ==
    IF run.pc \in {"loop", "return"}
    THEN (IF run.status = 0 THEN run.n ELSE run.n - 1)
    ELSE 0 - 1

RECURSIVE ReachedFrom(_, _, _)
\* Sn is reached from the estimate prev by the updates of the levels k .. n
ReachedFrom(prev, k, n) ==
    \A fjwj \in {LevelContributions(k)} :
        \A Sn \in {Estimate(prev, fjwj, FDiv(One, FromInt(2^k)))} :
            IF k = n THEN run.Sn = Sn ELSE ReachedFrom(Sn, k + 1, n)

FirstThreeLevels == 2 * (NumPairs(0) + NumPairs(1) + NumPairs(2))

BudgetArgs ==
    {[f |-> f, a |-> Float(a), b |-> Float(b),
      maxfun |-> Integer(mf), maxiter |-> Integer(mi),
      atol |-> Float(at), rtol |-> Float(rt), minweight |-> Float(1)] :
        f \in Integrands, a \in Limits, b \in Limits,
        mf \in {k * FirstThreeLevels - d : k \in {1, 2}, d \in {0, 1}},
        mi \in 1..MaxIter, at \in ATols, rt \in RTols}

InitBudget ==
    /\ run \in {NewCall(g) : g \in BudgetArgs}
    /\ run2 = Idle

SpecBudget == InitBudget /\ [][Next]_vars

\* C28: status 0 is set only at a level n >= 2: no run with maxiter <= 2 or
\* with maxfun < 50 * feval_factor (14 + 12 + 24 points in the first three
\* levels) gets status 0, and a record returned with status 0 has an error
\* that is not NaN and feval >= 50 * feval_factor.
C28_SuccessFromThirdLevel ==
    /\ 2 * NumPairs(0) = 14 /\ 2 * NumPairs(1) = 12 /\ 2 * NumPairs(2) = 24
    /\ run.status = 0 =>
           /\ run.n >= 2
           /\ run.maxiter > 2
           /\ run.maxfun >= FirstThreeLevels * run.feval_factor
           /\ run.feval >= FirstThreeLevels * run.feval_factor
           /\ ~IsNaN(run.aerr)
    /\ Returned =>
           /\ res.success => run.status = 0
           /\ (run.args.maxiter.v <= 2
                   \/ run.args.maxfun.v < FirstThreeLevels * run.feval_factor)
                  => ~res.success /\ res.status # 0
           /\ res.status = 0 =>
                  /\ ~IsNaN(res.error)
                  /\ res.feval >= FirstThreeLevels * run.feval_factor

\* a run whose maxfun is just the cost of three levels has returned with
\* success from the third level
C28_Witness ==
    /\ Returned
    /\ res.success /\ res.status = 0
    /\ run.n = 2
    /\ run.args.maxfun.v = FirstThreeLevels * run.feval_factor
    /\ res.feval = run.args.maxfun.v

(***************************************************************************)
(* Properties of equal limits and of equal estimates.                      *)
(***************************************************************************)
\* the caller's limits are equal
EqualLimits == run.args.a.v = run.args.b.v

\* C29: with a == b (both finite, both +inf or both -inf) the integral is 0
\* as soon as a level has been evaluated, whatever the integrand returns, and
\* the integrand is folded to f(x) + f(-x) with multiplier 2 only for limits
\* that are infinite with opposite signs.
C29_EqualLimitsZero ==
    /\ (Transformed /\ run.f.fold) =>
           /\ IsInf(run.args.a.v) /\ IsInf(run.args.b.v)
           /\ ~EqualLimits
    /\ (Transformed /\ run.feval_factor = 2) => run.f.fold
    /\ (Transformed /\ EqualLimits /\ run.fcalls >= 1
            /\ (run.pc = "loop" \/ run.status \in {0, 2})) => run.Sn = 0
    /\ (Returned /\ EqualLimits /\ run.fcalls >= 1) => res.integral = 0

\* the run over (+inf, +inf) of f(x) = 1 has folded its integrand and has
\* returned an integral that is not 0 after twice as many evaluations as points
C29_Witness ==
    /\ Returned
    /\ run.args.a.v = PInf /\ run.args.b.v = PInf
    /\ run.args.f = ConstF(One)
    /\ run.f.fold /\ ~run.f.neg /\ run.feval_factor = 2
    /\ run.a = 0 /\ run.b = One
    /\ run.fcalls >= 1
    /\ res.feval = 2 * Len(run.xj) * LevelsCalled(run)
    /\ IsFinite(res.integral) /\ res.integral # 0

\* the step is a level n >= 2 whose estimate equals the two before it
StepRepeatsEstimate ==
    /\ LevelErrorEstimated
    /\ run'.Sn = run.Sk[run.n]
    /\ run'.Sn = run.Sk[run.n - 1]

\* C30: a level n >= 2 whose estimate equals both previous estimates ends
\* the run with status 0; no further level is evaluated.
C30_EqualEstimatesConverge ==
    [][StepRepeatsEstimate =>
           /\ run'.status = 0
           /\ run'.pc = "return"
           /\ run'.Sk = run.Sk]_vars

\* the third level over the empty interval (1, 1) has repeated the estimate 0
\* of the first two; its error estimate is NaN and the loop goes on
C30_Witness ==
    /\ run.pc = "loop"
    /\ EqualLimits /\ run.args.a.v = One
    /\ run.args.f = ConstF(One)
    /\ run.n = 3
    /\ run.Sk = <<0, 0, 0>>
    /\ run.Sn = 0
    /\ IsNaN(run.rerr)
    /\ run.status = 0 - 1

=============================================================================
